---- MODULE Spec2Model ----
(***************************************************************************)
(* A model of gdal_trace_outline (src/src/gdal_trace_outline.cc): the      *)
(* driver main() and calc_ring_from_mask().  The driver is modelled step   *)
(* by step with a program counter; the stages it calls that live in other  *)
(* files of the repository (mask construction, tracer, pincher,            *)
(* simplifier, beveler, rasterizer, coordinate mapping) are modelled by    *)
(* what the specification says about them.                                 *)
(*                                                                         *)
(* Options that no modelled statement reads are left out: -v, -report,     *)
(* -b, -ogr-fmt, -llproj-toler, and the georef / NDV option groups.        *)
(***************************************************************************)
EXTENDS Integers, Sequences, FiniteSets, TLC

\* ------------------------------------------------------------ constants

CS_UNKNOWN == 0
CS_XY == 1
CS_EN == 2
CS_LL == 3

\* The pass loop runs class_id over 0..NumClassIds - 1.
NumClassIds == 256

\* Bounds of the model.
MaxOpts == 3        \* options on the command line (the image name not counted)
NumPixels == 3      \* the raster is a single row of NumPixels pixels
MaxRings == 2       \* rings in a ring set handed to the post-trace code

\* ------------------------------------------------------------- doubles
\* A double is NaN or a number of tenths (strtod accepts "nan").  Every
\* comparison with NaN is false, as in C.

D(t) == [nan |-> FALSE, tenths |-> t]
NaN == [nan |-> TRUE, tenths |-> 0]
FpLt(a, b) == ~a.nan /\ ~b.nan /\ a.tenths < b.tenths
FpGt(a, b) == FpLt(b, a)
FpGe(a, b) == ~a.nan /\ ~b.nan /\ a.tenths >= b.tenths

\* Values the numeric options are given on the command line.
BevelArgs == {D(-5), D(0), D(5), D(10), NaN}
TolerArgs == {D(-10), D(0)}
MinRingAreaArgs == {0, 2}
OutCsArgs == {"xy", "en", "ll", "utm"}
OutputKinds == {"wkt", "wkb", "ogr"}

\* ------------------------------------------------------------ variables

VARIABLES
    pc,                  \* position of the driver
    exit_code,           \* -1 while running, then the exit status
    err,                 \* the fatal_error / usage message, "" if none
    argp,                \* options consumed so far
    opt,                 \* main()'s option variables, one field each
    geom_outputs,        \* geom_output_list_t: the outputs in declaration order
    ds,                  \* TRUE once GDALOpen succeeded
    georef,              \* [fwd_affine, fwd_xform]: which transforms exist
    raster,              \* classify mode: pixel -> class value; else <<>>
    mask,                \* main()'s BitGrid: [w, h, bits]
    class_id,            \* loop variable of the pass loop
    feature_poly,        \* main()'s Mpoly of the pass
    cr,                  \* frame of calc_ring_from_mask: [mask, no_donuts, mp]
    shapes, shape_idx, go_idx,
    num_shapes_written,
    mask_export,         \* what mask_from_mpoly was given and the size it filled
    out_cs_arg,          \* history: the argument of the last -out-cs, "" if none
    stages,              \* history: the stages run in the current pass
    hist,                \* history: snapshots taken in the current pass
    passes               \* history: the passes traced so far

envVars == <<ds, georef, raster>>
passVars == <<mask, class_id, feature_poly, cr, shapes, shape_idx, go_idx,
              num_shapes_written, mask_export, stages, hist, passes>>
vars == <<pc, exit_code, err, argp, opt, geom_outputs, out_cs_arg, envVars, passVars>>

\* ---------------------------------------------------------------- exit

\* fatal_error(msg) and usage(): print and exit(1).
fatal_error(msg) ==
    /\ pc' = "exit"
    /\ exit_code' = 1
    /\ err' = msg

EmptyGrid == [w |-> 0, h |-> 0, bits |-> {}]
EmptyMpoly == [rings |-> <<>>]
NoExport == [mpoly |-> EmptyMpoly, w |-> 0, h |-> 0]
NoHist == [traced |-> EmptyMpoly, reduced |-> EmptyMpoly, dp_in |-> EmptyMpoly,
           trace_mask |-> EmptyGrid, written_before |-> 0]

Init ==
    /\ pc = "parse"
    /\ exit_code = -1
    /\ err = ""
    /\ argp = 0
    /\ opt = [input_raster_fn |-> FALSE,
              classify |-> FALSE,
              split_polys |-> FALSE,
              cur_out_cs |-> CS_UNKNOWN,
              mask_out_fn |-> FALSE,
              major_ring_only |-> FALSE,
              no_donuts |-> FALSE,
              min_ring_area |-> 0,
              reduction_tolerance |-> D(20),
              do_erosion |-> FALSE,
              do_invert |-> FALSE,
              bevel_size |-> D(1),
              do_pinch_excursions |-> FALSE]
    /\ geom_outputs = <<>>
    /\ out_cs_arg = ""
    /\ ds = FALSE
    /\ georef = [fwd_affine |-> FALSE, fwd_xform |-> FALSE]
    /\ raster = <<>>
    /\ mask = EmptyGrid
    /\ class_id = 0
    /\ feature_poly = EmptyMpoly
    /\ cr = [mask |-> EmptyGrid, no_donuts |-> FALSE, mp |-> EmptyMpoly]
    /\ shapes = <<>>
    /\ shape_idx = 0
    /\ go_idx = 0
    /\ num_shapes_written = 0
    /\ mask_export = NoExport
    /\ stages = <<>>
    /\ hist = NoHist
    /\ passes = <<>>

\* ------------------------------------------------ main(): option parsing

\* One turn of the loop `while(argp < argc)` that consumes an option.
ParseOption ==
    /\ pc = "parse"
    /\ argp < MaxOpts
    /\ argp' = argp + 1

ParseKeep == UNCHANGED <<pc, exit_code, err, geom_outputs, out_cs_arg, envVars, passVars>>
ParseAbort == UNCHANGED <<opt, geom_outputs, out_cs_arg, envVars, passVars>>

OptClassify ==
    ParseOption /\ opt' = [opt EXCEPT !.classify = TRUE] /\ ParseKeep

OptErosion ==
    ParseOption /\ opt' = [opt EXCEPT !.do_erosion = TRUE] /\ ParseKeep

OptInvert ==
    ParseOption /\ opt' = [opt EXCEPT !.do_invert = TRUE] /\ ParseKeep

OptSplitPolys ==
    ParseOption /\ opt' = [opt EXCEPT !.split_polys = TRUE] /\ ParseKeep

OptMaskOut ==
    ParseOption /\ opt' = [opt EXCEPT !.mask_out_fn = TRUE] /\ ParseKeep

OptMajorRing ==
    ParseOption /\ opt' = [opt EXCEPT !.major_ring_only = TRUE] /\ ParseKeep

OptNoDonuts ==
    ParseOption /\ opt' = [opt EXCEPT !.no_donuts = TRUE] /\ ParseKeep

OptPinchExcursions ==
    ParseOption /\ opt' = [opt EXCEPT !.do_pinch_excursions = TRUE] /\ ParseKeep

OptMinRingArea ==
    /\ ParseOption
    /\ \E v \in MinRingAreaArgs : opt' = [opt EXCEPT !.min_ring_area = v]
    /\ ParseKeep

OptDpToler ==
    /\ ParseOption
    /\ \E v \in TolerArgs : opt' = [opt EXCEPT !.reduction_tolerance = v]
    /\ ParseKeep

\* The range test of -bevel-size with its upper bound forgotten.
BevelSizeRejectedBelowOnly(v) == FpLt(v, D(0))

\* The range test of -bevel-size.
BevelSizeRejected(v) == FpLt(v, D(0)) \/ FpGe(v, D(10))

OptBevelSize ==
    /\ ParseOption
    /\ \E v \in BevelArgs :
         IF BevelSizeRejected(v)
         THEN /\ fatal_error("-bevel-size must be in the range 0 <= bevel < 1")
              /\ opt' = [opt EXCEPT !.bevel_size = v]
              /\ UNCHANGED <<geom_outputs, out_cs_arg, envVars, passVars>>
         ELSE /\ opt' = [opt EXCEPT !.bevel_size = v]
              /\ ParseKeep

\* The value of cur_out_cs after `-out-cs cs`; CS_UNKNOWN stands for the
\* unrecognized values, which are fatal.
ParseOutCs(cs) ==
    CASE cs = "xy" -> CS_XY
      [] cs = "en" -> CS_EN
      [] cs = "ll" -> CS_LL
      [] OTHER -> CS_UNKNOWN

OptOutCs ==
    /\ ParseOption
    /\ \E cs \in OutCsArgs :
         IF ParseOutCs(cs) = CS_UNKNOWN
         THEN /\ fatal_error("unrecognized value for -out-cs option")
              /\ UNCHANGED <<opt, out_cs_arg, geom_outputs, envVars, passVars>>
         ELSE /\ opt' = [opt EXCEPT !.cur_out_cs = ParseOutCs(cs)]
              /\ out_cs_arg' = cs
              /\ UNCHANGED <<pc, exit_code, err, geom_outputs, envVars, passVars>>

\* NewGeomOutput with the coordinate system left at pixel coordinates.
NewGeomOutputXY(out_cs, kind, arg) ==
    [out_cs |-> CS_XY, fn |-> kind, fh |-> FALSE, feats |-> <<>>, cs_arg |-> arg]

\* The entry add_geom_output appends for an output of the given kind
\* (fn: which of wkt_fn / wkb_fn / ogr_fn is set; fh: its handle, NULL so
\* far; feats: what has been written to it; cs_arg: history, the -out-cs
\* argument in force where the output was declared).
NewGeomOutput(out_cs, kind, arg) ==
    [out_cs |-> out_cs, fn |-> kind, fh |-> FALSE, feats |-> <<>>, cs_arg |-> arg]

add_geom_output(list, out_cs, kind, arg) ==
    Append(list, NewGeomOutput(out_cs, kind, arg))

\* -wkt-out, -wkb-out and -ogr-out.
OptGeomOut ==
    /\ ParseOption
    /\ \E kind \in OutputKinds :
         IF opt.cur_out_cs = CS_UNKNOWN
         THEN /\ fatal_error("must specify output coordinate system with -out-cs option before specifying output")
              /\ ParseAbort
         ELSE /\ geom_outputs' = add_geom_output(geom_outputs, opt.cur_out_cs, kind,
                                                 out_cs_arg)
              /\ UNCHANGED <<pc, exit_code, err, opt, out_cs_arg, envVars, passVars>>

\* A word that does not start with '-': the image name; a second one is a
\* usage error.
ArgImageName ==
    /\ pc = "parse"
    /\ IF opt.input_raster_fn
       THEN /\ fatal_error("usage")
            /\ UNCHANGED opt
       ELSE /\ opt' = [opt EXCEPT !.input_raster_fn = TRUE]
            /\ UNCHANGED <<pc, exit_code, err>>
    /\ UNCHANGED <<argp, geom_outputs, out_cs_arg, envVars, passVars>>

\* An option that is not recognized.
OptUnrecognized ==
    /\ ParseOption
    /\ fatal_error("unrecognized option")
    /\ ParseAbort

\* usage(): -h, an option whose value is missing or is not a number.
OptUsage ==
    /\ ParseOption
    /\ fatal_error("usage")
    /\ ParseAbort

\* The end of the command line, and the tests that follow the loop.
OptionConflict ==
    CASE ~opt.input_raster_fn /\ argp = 0 -> "usage"
      [] ~opt.input_raster_fn -> "must specify filename of image"
      [] opt.major_ring_only /\ opt.min_ring_area # 0 ->
           "-major-ring and -min-ring-area options cannot both be used at the same time"
      [] opt.major_ring_only /\ opt.no_donuts ->
           "-major-ring and -no-donuts options cannot both be used at the same time"
      [] opt.classify /\ opt.do_invert ->
           "-classify option is not compatible with -invert option"
      [] opt.classify /\ opt.mask_out_fn ->
           "-classify option is not compatible with -mask-out option"
      [] OTHER -> ""

EndOfOptions ==
    /\ pc = "parse"
    /\ IF OptionConflict # ""
       THEN fatal_error(OptionConflict)
       ELSE /\ pc' = "open"
            /\ UNCHANGED <<exit_code, err>>
    /\ UNCHANGED <<argp, opt, geom_outputs, out_cs_arg, envVars, passVars>>

\* ------------------------------------------------------- main(): startup

\* GDALOpen.
OpenDataset ==
    /\ pc = "open"
    /\ \E ok \in BOOLEAN :
         IF ok
         THEN /\ ds' = TRUE
              /\ pc' = "georef"
              /\ UNCHANGED <<exit_code, err>>
         ELSE /\ fatal_error("open failed")
              /\ UNCHANGED ds
    /\ UNCHANGED <<argp, opt, geom_outputs, out_cs_arg, georef, raster, passVars>>

NeedsAffine(out_cs) == out_cs = CS_EN \/ out_cs = CS_LL

\* NeedsXform with the test for ll outputs left out.
NeedsXformNever(out_cs) == FALSE

NeedsXform(out_cs) == out_cs = CS_LL

\* The message of the first test that fails in the loop over the outputs
\* that follows init_georef, "" if none fails.
RECURSIVE GeorefProblem(_, _, _)
GeorefProblem(outputs, g, i) ==
    IF i > Len(outputs) THEN ""
    ELSE IF NeedsAffine(outputs[i].out_cs) /\ ~g.fwd_affine
         THEN "missing affine transform"
    ELSE IF NeedsXform(outputs[i].out_cs) /\ ~g.fwd_xform
         THEN "missing coordinate transform"
    ELSE GeorefProblem(outputs, g, i + 1)

\* What init_georef may return.  The two transforms are read only for
\* outputs in en or ll; a run with no such output takes one representative.
GeorefChoices ==
    IF \E i \in 1..Len(geom_outputs) : NeedsAffine(geom_outputs[i].out_cs)
    THEN [fwd_affine : BOOLEAN, fwd_xform : BOOLEAN]
    ELSE {[fwd_affine |-> FALSE, fwd_xform |-> FALSE]}

InitGeoref ==
    /\ pc = "georef"
    /\ \E g \in GeorefChoices :
         /\ georef' = g
         /\ IF GeorefProblem(geom_outputs, g, 1) # ""
            THEN fatal_error(GeorefProblem(geom_outputs, g, 1))
            ELSE /\ pc' = "read"
                 /\ UNCHANGED <<exit_code, err>>
    /\ UNCHANGED <<argp, opt, geom_outputs, out_cs_arg, ds, raster, passVars>>

\* ------------------------------------------------- BitGrid and the raster

Pixels == {<<x, 1>> : x \in 1..NumPixels}
ClassIds == 0..(NumClassIds - 1)

\* The values a pixel of the 8-bit band holds in the model: the first and the
\* last class.
PixelValues == {0, NumClassIds - 1}

\* A w x h grid with the given bits set; the model's raster is one row.
BitGrid(bits) == [w |-> NumPixels, h |-> 1, bits |-> bits]

\* read_dataset_8bit marks in usage_array the values the band holds.
usage_array(r, c) == \E p \in DOMAIN r : r[p] = c

get_bitgrid_for_8bit_raster(r, c) == BitGrid({p \in DOMAIN r : r[p] = c})

invert(m) == [m EXCEPT !.bits = {<<x, y>> \in (1..m.w) \X (1..m.h) : <<x, y>> \notin m.bits}]

\* The eight neighbours of a pixel, in order around it.
Around == << <<-1, -1>>, <<0, -1>>, <<1, -1>>, <<1, 0>>,
             <<1, 1>>, <<0, 1>>, <<-1, 1>>, <<-1, 0>> >>

\* erode: a pixel stays only if two consecutive neighbours of it are set.
erode(m) ==
    [m EXCEPT !.bits =
        {p \in m.bits :
            \E i \in 1..8 :
                LET a == Around[i]
                    b == Around[(i % 8) + 1]
                IN  /\ <<p[1] + a[1], p[2] + a[2]>> \in m.bits
                    /\ <<p[1] + b[1], p[2] + b[2]>> \in m.bits}]

\* ------------------------------------------------------- rings and Mpoly

\* The ring around the pixels a..b of the row: its four corners.
RowRing(a, b) ==
    [pts |-> << <<a - 1, 0>>, <<b, 0>>, <<b, 1>>, <<a - 1, 1>> >>,
     is_hole |-> FALSE, parent_id |-> -1, ops |-> <<>>]

Abs(n) == IF n < 0 THEN -n ELSE n

RECURSIVE Shoelace(_, _)
Shoelace(pts, i) ==
    IF i > Len(pts) THEN 0
    ELSE LET p == pts[i]
             q == pts[(i % Len(pts)) + 1]
         IN  p[1] * q[2] - q[1] * p[2] + Shoelace(pts, i + 1)

\* Ring::area(): the unsigned area of the ring.
RingArea(ring) == Abs(Shoelace(ring.pts, 1)) \div 2

\* The runs of set pixels of a one-row grid, from left to right: the pixels
\* a..b are set, a-1 and b+1 are not.
RunStarts(m) == {a \in 1..m.w : <<a, 1>> \in m.bits /\ <<a - 1, 1>> \notin m.bits}
RunEnd(m, a) ==
    CHOOSE b \in a..m.w :
        /\ \A x \in a..b : <<x, 1>> \in m.bits
        /\ <<b + 1, 1>> \notin m.bits

RECURSIVE RunRings(_, _)
RunRings(m, from) ==
    IF \A a \in RunStarts(m) : a < from THEN <<>>
    ELSE LET a == CHOOSE x \in RunStarts(m) :
                      x >= from /\ \A y \in RunStarts(m) : y >= from => x <= y
         IN  <<RowRing(a, RunEnd(m, a))>> \o RunRings(m, RunEnd(m, a) + 1)

\* trace_mask on a one-row grid: one outer ring per run of set pixels (a row
\* has no holes), the rings smaller than min_area dropped.
trace_mask(m, min_area, suppress_holes) ==
    [rings |-> SelectSeq(RunRings(m, 1),
                         LAMBDA r : RingArea(r) >= min_area
                                    /\ (suppress_holes => r.parent_id < 0))]

\* A stage that rewrites the points of every ring leaves its mark on them.
Marked(mp, op) ==
    [rings |-> [i \in DOMAIN mp.rings |->
                   [mp.rings[i] EXCEPT !.ops = Append(@, op)]]]

bevel_self_intersections(mp, amount) == Marked(mp, "bevel")
pinch_excursions2(mp) == Marked(mp, "pinch")
xy2en(mp) == Marked(mp, "en")
xy2ll_with_interp(mp) == Marked(mp, "ll")

\* The subsequence of a sequence at the indices in keep.
RECURSIVE SubSeqAt(_, _, _)
SubSeqAt(seq, keep, i) ==
    IF i > Len(seq) THEN <<>>
    ELSE (IF i \in keep THEN <<seq[i]>> ELSE <<>>) \o SubSeqAt(seq, keep, i + 1)

\* compute_reduced_pointset: every ring reduced; a ring left with fewer
\* than three points is dropped.  Which rings degenerate depends on the
\* points and the tolerance: any set of rings without holes may.
ReducedPointsets(mp, toler) ==
    {Marked([rings |-> SubSeqAt(mp.rings, keep, 1)], "dp") :
        keep \in {k \in SUBSET DOMAIN mp.rings :
                     \A i \in DOMAIN mp.rings :
                         i \notin k => \A j \in DOMAIN mp.rings :
                                           mp.rings[j].parent_id # i - 1}}

\* The holes of ring i (parent_id counts from 0), as holes of ring 0.
HolesOf(mp, i) ==
    LET hs == SelectSeq(mp.rings, LAMBDA r : r.parent_id = i - 1)
    IN  [j \in DOMAIN hs |-> [hs[j] EXCEPT !.parent_id = 0]]

\* split_mpoly_to_polys: one Mpoly per outer ring, the ring and its holes.
RECURSIVE SplitFrom(_, _)
SplitFrom(mp, i) ==
    IF i > Len(mp.rings) THEN <<>>
    ELSE (IF mp.rings[i].parent_id < 0
          THEN << [rings |-> <<mp.rings[i]>> \o HolesOf(mp, i)] >>
          ELSE <<>>) \o SplitFrom(mp, i + 1)

split_mpoly_to_polys(mp) == SplitFrom(mp, 1)

\* ------------------------------------------------ main(): mask and outputs

\* The raster is read (classify) or the mask is built from the no-data
\* rule (otherwise): any content of the dataset.
BuildMask ==
    /\ pc = "read"
    /\ IF opt.classify
       THEN /\ raster' \in [Pixels -> PixelValues]
            /\ UNCHANGED mask
       ELSE /\ \E bits \in SUBSET Pixels : mask' = BitGrid(bits)
            /\ UNCHANGED raster
    /\ pc' = "open_outputs"
    /\ UNCHANGED <<exit_code, err, argp, opt, geom_outputs, out_cs_arg, ds, georef, class_id,
                   feature_poly, cr, shapes, shape_idx, go_idx,
                   num_shapes_written, mask_export, stages, hist, passes>>

\* The loop that opens the output files: the first k are opened; if k is
\* not the last, opening the next one fails.
OpenOutputs ==
    /\ pc = "open_outputs"
    /\ \E k \in 0..Len(geom_outputs) :
         /\ geom_outputs' = [i \in DOMAIN geom_outputs |->
                                IF i <= k THEN [geom_outputs[i] EXCEPT !.fh = TRUE]
                                ELSE geom_outputs[i]]
         /\ IF k < Len(geom_outputs)
            THEN fatal_error("cannot open output file")
            ELSE /\ pc' = "pass"
                 /\ UNCHANGED <<exit_code, err>>
    /\ UNCHANGED <<argp, opt, out_cs_arg, envVars, passVars>>

\* --------------------------------------------------- main(): the pass loop

do_geom_output == Len(geom_outputs) > 0

\* Whether the loop body runs for class value c.
PassRuns(c) == IF opt.classify THEN usage_array(raster, c) ELSE c = 0

\* PassMask with the class value left out of the call: every pass gets the
\* mask of class 0.
PassMaskOfFirstClass(c) == IF opt.classify THEN get_bitgrid_for_8bit_raster(raster, 0) ELSE mask

\* The mask of the pass before -invert and -erosion.
PassMask(c) == IF opt.classify THEN get_bitgrid_for_8bit_raster(raster, c) ELSE mask

PreparedMask(m) ==
    LET inverted == IF opt.do_invert THEN invert(m) ELSE m
    IN  IF opt.do_erosion THEN erode(inverted) ELSE inverted

\* The head of the loop over class_id, up to the call of
\* calc_ring_from_mask: the values that `continue` are skipped.
BeginPass ==
    /\ pc = "pass"
    /\ IF \E c \in ClassIds : c >= class_id /\ PassRuns(c)
       THEN LET rest == {d \in ClassIds : d >= class_id /\ PassRuns(d)}
                c == CHOOSE c \in rest : \A d \in rest : c <= d
            IN  /\ class_id' = c
                /\ mask' = PreparedMask(PassMask(c))
                /\ pc' = "trace"
       ELSE /\ class_id' = NumClassIds
            /\ pc' = "finish"
            /\ UNCHANGED mask
    /\ stages' = <<>>
    /\ hist' = [NoHist EXCEPT !.written_before = num_shapes_written]
    /\ UNCHANGED <<exit_code, err, argp, opt, geom_outputs, out_cs_arg, envVars, feature_poly,
                   cr, shapes, shape_idx, go_idx, num_shapes_written, mask_export,
                   passes>>

\* StageAfter with the mask export moved before the pinching.
StageAfterExportFirst(p) ==
    CASE p = "trace" -> "cr_major"
      [] p = "cr_major" -> "cr_bevel"
      [] p = "cr_bevel" -> "release"
      [] p = "release" -> "mask_out"
      [] p = "mask_out" -> "pinch"
      [] p = "pinch" -> "simplify"
      [] p = "simplify" -> "output"

\* StageAfter with the release of the mask moved after the pinching.
StageAfterLateRelease(p) ==
    CASE p = "trace" -> "cr_major"
      [] p = "cr_major" -> "cr_bevel"
      [] p = "cr_bevel" -> "pinch"
      [] p = "pinch" -> "release"
      [] p = "release" -> "mask_out"
      [] p = "mask_out" -> "simplify"
      [] p = "simplify" -> "output"

\* The order of the statements of a pass: the position that follows p.
StageAfter(p) ==
    CASE p = "trace" -> "cr_major"
      [] p = "cr_major" -> "cr_bevel"
      [] p = "cr_bevel" -> "release"
      [] p = "release" -> "pinch"
      [] p = "pinch" -> "mask_out"
      [] p = "mask_out" -> "simplify"
      [] p = "simplify" -> "output"

NoFrame == [mask |-> EmptyGrid, no_donuts |-> FALSE, mp |-> EmptyMpoly]

\* calc_ring_from_mask, entry: the mask is passed by value, and traced.
TraceMask ==
    /\ pc = "trace"
    /\ LET nd == opt.no_donuts \/ opt.major_ring_only
           mp == trace_mask(mask, opt.min_ring_area, nd)
       IN  /\ cr' = [mask |-> mask, no_donuts |-> nd, mp |-> mp]
           /\ hist' = [hist EXCEPT !.traced = mp, !.trace_mask = mask]
           /\ passes' = Append(passes, [class_id |-> class_id,
                                        traced |-> Len(mp.rings)])
    /\ stages' = Append(stages, "trace")
    /\ pc' = StageAfter(pc)
    /\ UNCHANGED <<exit_code, err, argp, opt, geom_outputs, out_cs_arg, envVars, mask, class_id,
                   feature_poly, shapes, shape_idx, go_idx, num_shapes_written,
                   mask_export>>

\* BestIdx with >= in place of >: the last of the largest rings.
RECURSIVE BestIdxLast(_, _, _, _)
BestIdxLast(rings, i, biggest_area, best_idx) ==
    IF i > Len(rings) THEN best_idx
    ELSE IF RingArea(rings[i]) >= biggest_area
         THEN BestIdxLast(rings, i + 1, RingArea(rings[i]), i - 1)
         ELSE BestIdxLast(rings, i + 1, biggest_area, best_idx)

\* The index (from 0) the loop over the rings leaves in best_idx.
RECURSIVE BestIdx(_, _, _, _)
BestIdx(rings, i, biggest_area, best_idx) ==
    IF i > Len(rings) THEN best_idx
    ELSE IF RingArea(rings[i]) > biggest_area
         THEN BestIdx(rings, i + 1, RingArea(rings[i]), i - 1)
         ELSE BestIdx(rings, i + 1, biggest_area, best_idx)

MajorRingApplies(mp) == opt.major_ring_only /\ Len(mp.rings) > 1

\* calc_ring_from_mask: the reduction to the major ring.
MajorRing ==
    /\ pc = "cr_major"
    /\ IF MajorRingApplies(cr.mp)
       THEN LET best == cr.mp.rings[BestIdx(cr.mp.rings, 1, 0, 0) + 1]
            IN  IF best.parent_id >= 0
                THEN /\ fatal_error("largest ring should not have a parent")
                     /\ UNCHANGED <<cr, stages, hist>>
                ELSE /\ cr' = [cr EXCEPT !.mp = [rings |-> <<best>>]]
                     /\ stages' = Append(stages, "major")
                     /\ hist' = [hist EXCEPT !.reduced = [rings |-> <<best>>]]
                     /\ pc' = StageAfter(pc)
                     /\ UNCHANGED <<exit_code, err>>
       ELSE /\ hist' = [hist EXCEPT !.reduced = cr.mp]
            /\ pc' = StageAfter(pc)
            /\ UNCHANGED <<exit_code, err, cr, stages>>
    /\ UNCHANGED <<argp, opt, geom_outputs, out_cs_arg, envVars, mask, class_id, feature_poly,
                   shapes, shape_idx, go_idx, num_shapes_written, mask_export, passes>>

\* BevelApplies with the test for rings left out.
BevelAppliesToEmpty(mp) == FpGt(opt.bevel_size, D(0))

BevelApplies(mp) == Len(mp.rings) > 0 /\ FpGt(opt.bevel_size, D(0))

\* calc_ring_from_mask: the beveling, and the return to main().
BevelAndReturn ==
    /\ pc = "cr_bevel"
    /\ IF BevelApplies(cr.mp)
       THEN /\ feature_poly' = bevel_self_intersections(cr.mp, opt.bevel_size)
            /\ stages' = Append(stages, "bevel")
       ELSE /\ feature_poly' = cr.mp
            /\ UNCHANGED stages
    /\ cr' = NoFrame
    /\ pc' = StageAfter(pc)
    /\ UNCHANGED <<exit_code, err, argp, opt, geom_outputs, out_cs_arg, envVars, mask, class_id,
                   shapes, shape_idx, go_idx, num_shapes_written, mask_export, hist,
                   passes>>

\* mask = BitGrid(0, 0)
ReleaseMask ==
    /\ pc = "release"
    /\ mask' = EmptyGrid
    /\ stages' = Append(stages, "release")
    /\ pc' = StageAfter(pc)
    /\ UNCHANGED <<exit_code, err, argp, opt, geom_outputs, out_cs_arg, envVars, class_id,
                   feature_poly, cr, shapes, shape_idx, go_idx, num_shapes_written,
                   mask_export, hist, passes>>

PinchApplies(mp) == Len(mp.rings) > 0 /\ opt.do_pinch_excursions

PinchExcursions ==
    /\ pc = "pinch"
    /\ IF PinchApplies(feature_poly)
       THEN /\ feature_poly' = pinch_excursions2(feature_poly)
            /\ stages' = Append(stages, "pinch")
       ELSE UNCHANGED <<feature_poly, stages>>
    /\ pc' = StageAfter(pc)
    /\ UNCHANGED <<exit_code, err, argp, opt, geom_outputs, out_cs_arg, envVars, mask, class_id,
                   cr, shapes, shape_idx, go_idx, num_shapes_written, mask_export,
                   hist, passes>>

\* mask_from_mpoly given the Mpoly in projected coordinates.
mask_from_mpoly_projected(mp) == [mpoly |-> xy2en(mp), w |-> NumPixels, h |-> 1]

\* mask_from_mpoly: the Mpoly it is given, and the size of the grid it fills.
mask_from_mpoly(mp) == [mpoly |-> mp, w |-> NumPixels, h |-> 1]

MaskOut ==
    /\ pc = "mask_out"
    /\ IF opt.mask_out_fn
       THEN /\ mask_export' = mask_from_mpoly(feature_poly)
            /\ stages' = Append(stages, "rasterize")
       ELSE UNCHANGED <<mask_export, stages>>
    /\ pc' = StageAfter(pc)
    /\ UNCHANGED <<exit_code, err, argp, opt, geom_outputs, out_cs_arg, envVars, mask, class_id,
                   feature_poly, cr, shapes, shape_idx, go_idx, num_shapes_written,
                   hist, passes>>

\* SimplifyApplies with >= in place of >.
SimplifyAppliesAtZero(mp) == Len(mp.rings) > 0 /\ FpGe(opt.reduction_tolerance, D(0))

SimplifyApplies(mp) == Len(mp.rings) > 0 /\ FpGt(opt.reduction_tolerance, D(0))

Simplify ==
    /\ pc = "simplify"
    /\ IF SimplifyApplies(feature_poly)
       THEN /\ feature_poly' \in ReducedPointsets(feature_poly, opt.reduction_tolerance)
            /\ stages' = Append(stages, "dp")
       ELSE UNCHANGED <<feature_poly, stages>>
    /\ hist' = [hist EXCEPT !.dp_in = feature_poly]
    /\ pc' = StageAfter(pc)
    /\ UNCHANGED <<exit_code, err, argp, opt, geom_outputs, out_cs_arg, envVars, mask, class_id,
                   cr, shapes, shape_idx, go_idx, num_shapes_written, mask_export,
                   passes>>

\* The shapes of the pass: the Mpoly, or its polygons with -split-polys.
ShapesOf(mp) == IF opt.split_polys THEN split_mpoly_to_polys(mp) ELSE <<mp>>

\* The end of the loop body: feature_poly and shapes go out of scope.
EndPass ==
    /\ pc' = "pass"
    /\ class_id' = class_id + 1
    /\ feature_poly' = EmptyMpoly
    /\ shapes' = <<>>
    /\ shape_idx' = 0
    /\ go_idx' = 0

\* WritesOutput with the tests for rings left out.
WritesOutputOfEmpty(mp) == do_geom_output /\ Len(ShapesOf(mp)) > 0

WritesOutput(mp) == Len(mp.rings) > 0 /\ do_geom_output /\ Len(ShapesOf(mp)) > 0

BeginOutput ==
    /\ pc = "output"
    /\ IF WritesOutput(feature_poly)
       THEN /\ shapes' = ShapesOf(feature_poly)
            /\ shape_idx' = 1
            /\ go_idx' = 1
            /\ pc' = "emit"
            /\ UNCHANGED <<class_id, feature_poly>>
       ELSE EndPass
    /\ UNCHANGED <<exit_code, err, argp, opt, geom_outputs, out_cs_arg, envVars, mask, cr,
                   num_shapes_written, mask_export, stages, hist, passes>>

\* proj_poly made from a shape that an earlier output has already mapped to
\* easting/northing.
proj_poly_of_mapped(poly_in, out_cs) ==
    CASE out_cs = CS_XY -> xy2en(poly_in)
      [] out_cs = CS_EN -> xy2en(xy2en(poly_in))
      [] out_cs = CS_LL -> xy2ll_with_interp(xy2en(poly_in))

\* proj_poly: the copy of the shape in the coordinate system of the output.
proj_poly(poly_in, out_cs) ==
    CASE out_cs = CS_XY -> poly_in
      [] out_cs = CS_EN -> xy2en(poly_in)
      [] out_cs = CS_LL -> xy2ll_with_interp(poly_in)

\* One turn of the loop over the outputs, for the shape at shape_idx; after
\* the last output the shape is counted and the next shape is taken.
EmitGeom ==
    /\ pc = "emit"
    /\ LET go == geom_outputs[go_idx]
       IN  IF go.out_cs \notin {CS_XY, CS_EN, CS_LL}
           THEN /\ fatal_error("bad val for out_cs")
                /\ UNCHANGED <<geom_outputs, class_id, feature_poly, shapes,
                               shape_idx, go_idx, num_shapes_written, stages>>
           ELSE /\ geom_outputs' =
                      [geom_outputs EXCEPT ![go_idx].feats =
                          Append(@, proj_poly(shapes[shape_idx], go.out_cs))]
                /\ stages' = stages \o (IF go.out_cs = CS_XY THEN <<"write">>
                                         ELSE <<"map", "write">>)
                /\ UNCHANGED <<exit_code, err>>
                /\ IF go_idx < Len(geom_outputs)
                   THEN /\ go_idx' = go_idx + 1
                        /\ UNCHANGED <<pc, class_id, feature_poly, shapes, shape_idx,
                                       num_shapes_written>>
                   ELSE /\ num_shapes_written' = num_shapes_written + 1
                        /\ IF shape_idx < Len(shapes)
                           THEN /\ shape_idx' = shape_idx + 1
                                /\ go_idx' = 1
                                /\ UNCHANGED <<pc, class_id, feature_poly, shapes>>
                           ELSE EndPass
    /\ UNCHANGED <<argp, opt, out_cs_arg, envVars, mask, cr, mask_export, hist, passes>>

\* After the loop: the outputs are closed and main() returns 0.
Finish ==
    /\ pc = "finish"
    /\ geom_outputs' = [i \in DOMAIN geom_outputs |-> [geom_outputs[i] EXCEPT !.fh = FALSE]]
    /\ pc' = "exit"
    /\ exit_code' = 0
    /\ UNCHANGED <<err, argp, opt, out_cs_arg, envVars, passVars>>

\* ------------------------------------------------------- specification

Next ==
    \/ OptClassify \/ OptErosion \/ OptInvert \/ OptSplitPolys \/ OptMaskOut
    \/ OptMajorRing \/ OptNoDonuts \/ OptPinchExcursions
    \/ OptMinRingArea \/ OptDpToler \/ OptBevelSize \/ OptOutCs \/ OptGeomOut
    \/ ArgImageName \/ OptUnrecognized \/ OptUsage \/ EndOfOptions
    \/ OpenDataset \/ InitGeoref \/ BuildMask \/ OpenOutputs
    \/ BeginPass \/ TraceMask \/ MajorRing \/ BevelAndReturn \/ ReleaseMask
    \/ PinchExcursions \/ MaskOut \/ Simplify \/ BeginOutput \/ EmitGeom
    \/ Finish

Spec == Init /\ [][Next]_vars

\* ------------------------------- calc_ring_from_mask on any traced ring set

\* The ring sets trace_mask may hand to the code that follows it, the driver
\* not relying on the tracer: up to MaxRings rings, each with no parent or
\* with another ring of the set as its parent. The code reads of a ring its
\* area and its parent_id only, so the rings are those around the runs that
\* start at the first pixel: one ring for each area.
RingsOfSet(n) ==
    {[RowRing(1, b) EXCEPT !.parent_id = par, !.is_hole = (par >= 0)] :
        <<b, par>> \in (1..NumPixels) \X (-1..(n - 1))}

RingSets ==
    UNION {{[rings |-> rs] :
               rs \in {f \in [1..n -> RingsOfSet(n)] :
                          \A k \in 1..n : f[k].parent_id # k - 1}} :
           n \in 0..MaxRings}

\* main() has called calc_ring_from_mask in the only pass of a run without
\* -classify, and trace_mask has returned.
InitRing ==
    /\ pc = "cr_major"
    /\ exit_code = -1
    /\ err = ""
    /\ \E major \in BOOLEAN, bevel \in {D(1)} \cup {v \in BevelArgs : ~BevelSizeRejected(v)} :
          /\ opt = [input_raster_fn |-> TRUE,
                    classify |-> FALSE,
                    split_polys |-> FALSE,
                    cur_out_cs |-> CS_UNKNOWN,
                    mask_out_fn |-> FALSE,
                    major_ring_only |-> major,
                    no_donuts |-> FALSE,
                    min_ring_area |-> 0,
                    reduction_tolerance |-> D(20),
                    do_erosion |-> FALSE,
                    do_invert |-> FALSE,
                    bevel_size |-> bevel,
                    do_pinch_excursions |-> FALSE]
          /\ argp = (IF major THEN 1 ELSE 0) + (IF bevel = D(1) THEN 0 ELSE 1)
          /\ \E mp \in RingSets :
                /\ cr = [mask |-> BitGrid(Pixels), no_donuts |-> major, mp |-> mp]
                /\ hist = [NoHist EXCEPT !.traced = mp, !.trace_mask = BitGrid(Pixels)]
                /\ passes = <<[class_id |-> 0, traced |-> Len(mp.rings)]>>
    /\ geom_outputs = <<>>
    /\ out_cs_arg = ""
    /\ ds = TRUE
    /\ georef = [fwd_affine |-> FALSE, fwd_xform |-> FALSE]
    /\ raster = <<>>
    /\ mask = BitGrid(Pixels)
    /\ class_id = 0
    /\ feature_poly = EmptyMpoly
    /\ shapes = <<>>
    /\ shape_idx = 0
    /\ go_idx = 0
    /\ num_shapes_written = 0
    /\ mask_export = NoExport
    /\ stages = <<"trace">>

NextRing == MajorRing \/ BevelAndReturn

SpecRing == InitRing /\ [][NextRing]_vars

\* ------------------------------------------------------------ properties

Has(stage) == \E i \in DOMAIN stages : stages[i] = stage

\* The stages of a pass in the order of the code; mapping and writing
\* alternate over the outputs and the shapes.
CodeRank(stage) ==
    CASE stage = "trace" -> 1
      [] stage = "major" -> 2
      [] stage = "bevel" -> 3
      [] stage = "release" -> 4
      [] stage = "pinch" -> 5
      [] stage = "rasterize" -> 6
      [] stage = "dp" -> 7
      [] stage \in {"map", "write"} -> 8

\* C1 as amended: in every pass the stages run in the order trace, major-ring
\* reduction, beveling, release of the mask, excursion pinching, mask export,
\* simplification, then per shape and output coordinate mapping and writing;
\* no stage but mapping and writing runs twice, and every mapping is followed
\* at once by the writing of its output.
C1_StagesInCodeOrder ==
    /\ \A i, j \in DOMAIN stages :
          i < j => /\ CodeRank(stages[i]) <= CodeRank(stages[j])
                   /\ CodeRank(stages[i]) = CodeRank(stages[j])
                          => stages[i] \in {"map", "write"}
    /\ \A i \in DOMAIN stages :
          stages[i] = "map" /\ i < Len(stages) => stages[i + 1] = "write"

\* A pass in which beveling, pinching, simplification, mapping and writing
\* have all run.
C1_Witness ==
    Has("bevel") /\ Has("pinch") /\ Has("dp") /\ Has("map") /\ Has("write")

\* C1 as stated: beveling never runs before the excursion pinching or the
\* simplification of the same Mpoly.
C1_BevelAfterPinchAndSimplify ==
    \A i, j \in DOMAIN stages :
        i < j => ~(stages[i] = "bevel" /\ stages[j] \in {"pinch", "dp"})

\* The transforms the declared outputs need and the dataset lacks.
MissingTransform ==
    \E i \in DOMAIN geom_outputs :
        LET cs == geom_outputs[i].out_cs
        IN  \/ cs \in {CS_EN, CS_LL} /\ ~georef.fwd_affine
            \/ cs = CS_LL /\ ~georef.fwd_xform

\* georef holds what init_georef returned.
GeorefRead == ds /\ pc # "georef"

NothingStarted ==
    /\ mask = EmptyGrid
    /\ DOMAIN raster = {}
    /\ \A i \in DOMAIN geom_outputs :
          ~geom_outputs[i].fh /\ geom_outputs[i].feats = <<>>
    /\ stages = <<>>
    /\ mask_export = NoExport

\* C2: when an output in en or ll lacks the affine transform, or an output
\* in ll lacks the projected-to-geographic transform, the run has ended with
\* the matching fatal error, with no mask built, no output file opened and
\* no stage run; so no mapping is ever made with a transform missing.
C2_MissingTransformIsFatal ==
    GeorefRead /\ MissingTransform =>
        /\ pc = "exit"
        /\ exit_code = 1
        /\ err \in {"missing affine transform", "missing coordinate transform"}
        /\ err = "missing affine transform" <=> ~georef.fwd_affine
        /\ NothingStarted

\* The run was ended because the coordinate transform of an ll output is
\* missing.
C2_Witness ==
    /\ pc = "exit"
    /\ err = "missing coordinate transform"
    /\ \E i \in DOMAIN geom_outputs : geom_outputs[i].out_cs = CS_LL
    /\ georef.fwd_affine /\ ~georef.fwd_xform

InUnitRange(v) == ~v.nan /\ 0 <= v.tenths /\ v.tenths < 10
OutsideUnitRange(v) == ~v.nan /\ (v.tenths < 0 \/ v.tenths >= 10)

Positive(v) == ~v.nan /\ v.tenths > 0

\* C4: when calc_ring_from_mask returns, the beveler has run if and only if
\* the traced and reduced Mpoly has a ring and bevel_size > 0; when it has
\* not run (bevel_size = 0, or no ring) the Mpoly returned is the traced and
\* reduced one, unchanged; the beveler never runs on an empty Mpoly.
C4_BevelIffRingsAndSize ==
    pc = "release" =>
        /\ Has("bevel") <=> Len(hist.reduced.rings) >= 1 /\ Positive(opt.bevel_size)
        /\ opt.bevel_size = D(0) => feature_poly = hist.reduced
        /\ ~Has("bevel") => feature_poly = hist.reduced
        /\ Has("bevel") =>
              /\ Len(feature_poly.rings) = Len(hist.reduced.rings)
              /\ \A i \in DOMAIN feature_poly.rings :
                    feature_poly.rings[i] =
                        [hist.reduced.rings[i] EXCEPT !.ops = Append(@, "bevel")]
        /\ ~opt.major_ring_only => hist.reduced = hist.traced

\* calc_ring_from_mask has returned a non-empty Mpoly with bevel_size = 0.
C4_Witness ==
    /\ pc = "release"
    /\ opt.bevel_size = D(0)
    /\ Len(feature_poly.rings) > 0

\* C5: with a reduction tolerance of 0 the simplifier is not called and the
\* Mpoly that goes on to the outputs is the Mpoly that entered the
\* simplification stage; the simplifier is called exactly when that Mpoly
\* has a ring and the tolerance is > 0.
C5_ZeroToleranceKeepsMpoly ==
    pc \in {"output", "emit"} =>
        /\ Has("dp") <=> Len(hist.dp_in.rings) > 0 /\ Positive(opt.reduction_tolerance)
        /\ ~Has("dp") => feature_poly = hist.dp_in
        /\ opt.reduction_tolerance = D(0) =>
              /\ feature_poly = hist.dp_in
              /\ pc = "emit" /\ ~opt.split_polys => shapes = <<hist.dp_in>>
              /\ pc = "emit" /\ ~opt.split_polys =>
                    \A i \in 1..(go_idx - 1) :
                        geom_outputs[i].out_cs = CS_XY =>
                            geom_outputs[i].feats[Len(geom_outputs[i].feats)] = hist.dp_in

\* With -dp-toler 0 a traced Mpoly is handed to the outputs.
C5_Witness ==
    /\ pc = "emit"
    /\ opt.reduction_tolerance = D(0)
    /\ Len(hist.dp_in.rings) > 0

\* No ring of the Mpoly has been mapped out of pixel coordinates.
InPixelSpace(mp) ==
    \A i \in DOMAIN mp.rings :
        \A k \in DOMAIN mp.rings[i].ops : mp.rings[i].ops[k] \notin {"en", "ll"}

\* C6: the Mpoly given to mask_from_mpoly is in pixel coordinates, whatever
\* the outputs; the Mpoly of the pass and its shapes stay in pixel
\* coordinates while the outputs are mapped and written.
C6_RasterizerGetsPixelSpace ==
    /\ InPixelSpace(mask_export.mpoly)
    /\ \A i, j \in DOMAIN stages :
          stages[i] = "rasterize" /\ stages[j] = "map" => i < j
    /\ InPixelSpace(feature_poly)
    /\ \A k \in DOMAIN shapes : InPixelSpace(shapes[k])
    /\ pc = "emit" => shapes = ShapesOf(feature_poly)

\* The mask of a non-empty Mpoly was exported and the Mpoly was written to
\* an output in en or ll.
C6_Witness ==
    /\ Len(mask_export.mpoly.rings) > 0
    /\ \E i \in DOMAIN geom_outputs :
          /\ geom_outputs[i].out_cs # CS_XY
          /\ geom_outputs[i].feats # <<>>

\* C7 as amended: the mask is released when calc_ring_from_mask has returned,
\* that is after the tracing, the major-ring reduction and the beveling, and
\* before the pinching, the mask export, the simplification, the mapping and
\* the writing; while calc_ring_from_mask runs, beveling included, main()'s
\* mask and the copy passed by value are both alive.
C7_MaskReleasedAfterCalcRing ==
    /\ \A i \in DOMAIN stages :
          stages[i] \in {"pinch", "rasterize", "dp", "map", "write"} =>
              \E j \in 1..(i - 1) : stages[j] = "release"
    /\ \A i, j \in DOMAIN stages :
          stages[i] \in {"trace", "major", "bevel"} /\ stages[j] = "release" => i < j
    /\ pc \in {"pinch", "mask_out", "simplify", "output", "emit"} =>
          mask = EmptyGrid /\ cr.mask = EmptyGrid
    /\ pc \in {"cr_major", "cr_bevel"} =>
          /\ mask.w = NumPixels
          /\ cr.mask = mask
    /\ pc = "release" => mask.w = NumPixels

\* The beveler has run and the mask was released after it.
C7_Witness ==
    /\ pc = "pinch"
    /\ Has("bevel")
    /\ mask = EmptyGrid
    /\ hist.trace_mask.bits # {}

\* C7 as stated: the mask is released before any polygon stage runs,
\* beveling included.
C7_MaskReleasedBeforePolygonStages ==
    \A i \in DOMAIN stages :
        stages[i] \in {"bevel", "pinch", "dp", "map", "write"} =>
            \E j \in 1..(i - 1) : stages[j] = "release"

CsOfArg(a) ==
    CASE a = "xy" -> CS_XY
      [] a = "en" -> CS_EN
      [] a = "ll" -> CS_LL
      [] OTHER -> CS_UNKNOWN

\* C9: every declared output has the coordinate system of the last -out-cs
\* given before it, and keeps it whatever -out-cs follows; an output option
\* with no -out-cs before it ends the run with a fatal error.
C9_OutputBoundToLastOutCs ==
    /\ \A i \in DOMAIN geom_outputs :
          /\ geom_outputs[i].cs_arg \in {"xy", "en", "ll"}
          /\ geom_outputs[i].out_cs = CsOfArg(geom_outputs[i].cs_arg)
    /\ out_cs_arg = "" => geom_outputs = <<>>
    /\ err = "must specify output coordinate system with -out-cs option before specifying output"
          => pc = "exit" /\ exit_code = 1 /\ out_cs_arg = "" /\ ~ds
    /\ opt.cur_out_cs = CsOfArg(out_cs_arg)

\* An output was declared in en and a later -out-cs chose another system.
C9_Witness ==
    /\ Len(geom_outputs) = 1
    /\ geom_outputs[1].out_cs = CS_EN
    /\ opt.cur_out_cs = CS_LL

\* C10: in a pass that traces to an Mpoly with no ring, no reduction,
\* beveling, pinching, simplification, mapping or writing runs and no shape
\* is counted; the mask export, if asked for, is made of the empty Mpoly; the
\* pass is no error, and a run that ends after it has run a pass for every
\* class value the loop selects and exits with status 0.
C10_EmptyPassIsNoError ==
    /\ Has("trace") /\ Len(hist.traced.rings) = 0 =>
          /\ \A i \in DOMAIN stages : stages[i] \in {"trace", "release", "rasterize"}
          /\ pc \notin {"emit", "trace"}
          /\ feature_poly = EmptyMpoly
          /\ num_shapes_written = hist.written_before
          /\ exit_code # 1 /\ err = ""
          /\ opt.mask_out_fn /\ pc \in {"simplify", "output", "pass", "finish", "exit"} =>
                /\ Has("rasterize")
                /\ mask_export = [mpoly |-> EmptyMpoly, w |-> NumPixels, h |-> 1]
    /\ pc \in {"finish", "exit"} /\ passes # <<>> =>
          /\ exit_code # 1
          /\ {passes[i].class_id : i \in DOMAIN passes} = {c \in ClassIds : PassRuns(c)}
          /\ \A i, j \in DOMAIN passes : i < j => passes[i].class_id < passes[j].class_id
    /\ \A i \in DOMAIN passes :
          i < Len(passes) /\ passes[i].traced = 0 => passes[i + 1].class_id > passes[i].class_id

\* A run has ended with status 0 after a pass that traced no ring and a
\* later pass that traced one.
C10_Witness ==
    /\ pc = "exit"
    /\ exit_code = 0
    /\ Len(passes) = 2
    /\ passes[1].traced = 0
    /\ passes[2].traced > 0

\* The ring of largest area of a ring set, the first of them if several
\* have that area.
FirstLargest(rings) ==
    CHOOSE i \in DOMAIN rings :
        /\ \A j \in DOMAIN rings : RingArea(rings[j]) <= RingArea(rings[i])
        /\ \A j \in 1..(i - 1) : RingArea(rings[j]) < RingArea(rings[i])

\* C8: in major-ring mode, whatever rings the tracer returned, once the
\* reduction has run: if the ring of largest area has a parent the run has
\* ended with the fatal error and main() got no Mpoly; otherwise the Mpoly is
\* that ring alone, with no parent and not a hole, and it is what
\* calc_ring_from_mask goes on with.
C8_MajorRingIsLargestParentless ==
    opt.major_ring_only /\ pc # "cr_major" /\ Len(hist.traced.rings) >= 1 =>
        LET big == hist.traced.rings[FirstLargest(hist.traced.rings)]
        IN  IF big.parent_id >= 0
            THEN /\ pc = "exit"
                 /\ exit_code = 1
                 /\ err = "largest ring should not have a parent"
                 /\ feature_poly = EmptyMpoly
            ELSE /\ pc \in {"cr_bevel", "release"}
                 /\ exit_code = -1
                 /\ hist.reduced = [rings |-> <<big>>]
                 /\ pc = "cr_bevel" => cr.mp = [rings |-> <<big>>]
                 /\ pc = "release" =>
                       /\ Len(feature_poly.rings) = 1
                       /\ feature_poly.rings[1].pts = big.pts
                       /\ feature_poly.rings[1].parent_id = -1
                       /\ ~feature_poly.rings[1].is_hole

\* calc_ring_from_mask has returned the major ring of a traced set of
\* several rings, one of them a hole.
C8_Witness ==
    /\ pc = "release"
    /\ opt.major_ring_only
    /\ Len(hist.traced.rings) >= 2
    /\ \E i \in DOMAIN hist.traced.rings : hist.traced.rings[i].parent_id >= 0
    /\ Len(feature_poly.rings) = 1

\* The coordinate mappings a ring has gone through, in order.
MappingsOf(ring) == SelectSeq(ring.ops, LAMBDA op : op \in {"en", "ll"})

\* The mappings a ring written to an output in out_cs must have gone through.
MappingsFor(out_cs) ==
    CASE out_cs = CS_XY -> <<>>
      [] out_cs = CS_EN -> <<"en">>
      [] out_cs = CS_LL -> <<"ll">>

\* The ring as it was before any mapping.
Unmapped(mp) ==
    [rings |-> [i \in DOMAIN mp.rings |->
                  [mp.rings[i] EXCEPT
                      !.ops = SelectSeq(@, LAMBDA op : op \notin {"en", "ll"})]]]

\* C11: every geometry written to an output has gone through exactly the
\* mapping of that output's coordinate system, once (none for xy), whatever
\* the other outputs and the shapes written before it; it is a shape of the
\* pass, which stays in pixel coordinates; and every output gets every shape.
C11_GeometryMappedOnce ==
    /\ \A g \in DOMAIN geom_outputs :
          \A f \in DOMAIN geom_outputs[g].feats :
              LET poly == geom_outputs[g].feats[f]
              IN  /\ Len(poly.rings) > 0
                  /\ \A r \in DOMAIN poly.rings :
                        MappingsOf(poly.rings[r]) = MappingsFor(geom_outputs[g].out_cs)
    /\ pc = "emit" =>
          /\ \A k \in DOMAIN shapes : Unmapped(shapes[k]) = shapes[k]
          /\ \A g \in DOMAIN geom_outputs :
                LET feats == geom_outputs[g].feats
                    done == IF g < go_idx THEN shape_idx ELSE shape_idx - 1
                IN  /\ Len(feats) = hist.written_before + done
                    /\ \A k \in 1..done :
                          Unmapped(feats[hist.written_before + k]) = shapes[k]
    /\ pc \in {"pass", "finish", "exit"} /\ exit_code # 1 =>
          \A g \in DOMAIN geom_outputs : Len(geom_outputs[g].feats) = num_shapes_written

\* Two outputs have each been written a geometry, the later one mapped.
C11_Witness ==
    /\ Len(geom_outputs) >= 2
    /\ geom_outputs[1].feats # <<>>
    /\ geom_outputs[2].feats # <<>>
    /\ geom_outputs[1].out_cs # CS_XY
    /\ geom_outputs[2].out_cs # CS_XY

\* The pixels of the raster that hold the class value c.
PixelsOfClass(c) == {p \in Pixels : raster[p] = c}

\* What a pass for class value c traces, computed from the raster and the
\* options alone.
TracedOfClass(c) ==
    trace_mask(PreparedMask(BitGrid(PixelsOfClass(c))), opt.min_ring_area,
               opt.no_donuts \/ opt.major_ring_only)

\* The pass loop is running or has ended without a fatal error.
InPassLoop ==
    pc \in {"pass", "trace", "cr_major", "cr_bevel", "release", "pinch", "mask_out",
            "simplify", "output", "emit", "finish"}
    \/ (pc = "exit" /\ exit_code = 0)

C12_PassesState ==
    /\ InPassLoop /\ opt.classify =>
          /\ DOMAIN raster = Pixels
          \* a pass runs for the class values in use only, in increasing order
          /\ \A i \in DOMAIN passes : PixelsOfClass(passes[i].class_id) # {}
          /\ \A i, j \in DOMAIN passes : i < j => passes[i].class_id < passes[j].class_id
          \* no class value in use below the loop variable was passed over
          /\ \A c \in {raster[p] : p \in Pixels} :
                (c < class_id \/ pc \in {"finish", "exit"}) =>
                    \E i \in DOMAIN passes : passes[i].class_id = c
          \* the mask of the pass and what it traces come from the raster alone
          /\ pc = "trace" =>
                /\ mask = PreparedMask(BitGrid(PixelsOfClass(class_id)))
                /\ feature_poly = EmptyMpoly /\ shapes = <<>> /\ stages = <<>>
          /\ pc \in {"cr_major", "cr_bevel", "release", "pinch", "mask_out",
                     "simplify", "output", "emit"} =>
                /\ hist.traced = TracedOfClass(class_id)
                /\ passes[Len(passes)] =
                      [class_id |-> class_id, traced |-> Len(TracedOfClass(class_id).rings)]
          /\ \A i \in DOMAIN passes :
                passes[i].traced = Len(TracedOfClass(passes[i].class_id).rings)
          \* between two passes nothing of the earlier one is left
          /\ pc = "pass" => mask = EmptyGrid /\ feature_poly = EmptyMpoly /\ shapes = <<>>
    /\ InPassLoop /\ ~opt.classify =>
          /\ Len(passes) <= 1
          /\ \A i \in DOMAIN passes : passes[i].class_id = 0
          /\ (pc \in {"finish", "exit"} \/ class_id > 0) => Len(passes) = 1

\* C12: in classify mode a pass runs for exactly the class values the raster
\* holds, in increasing order; each pass starts with no Mpoly and no shapes,
\* its mask is built from the pixels of its class alone and what it traces is
\* a function of the raster, the class value and the options; the raster is
\* not written after it is read. Without -classify exactly one pass runs, for
\* class_id 0.
C12_PassesIndependent ==
    /\ []C12_PassesState
    /\ [][pc # "read" => raster' = raster]_vars

\* A classify run has ended after two passes that each traced a ring.
C12_Witness ==
    /\ pc = "exit"
    /\ exit_code = 0
    /\ opt.classify
    /\ Len(passes) = 2
    /\ passes[1].traced > 0
    /\ passes[2].traced > 0

====
